---------------------------- MODULE Spec2Model ----------------------------
(***************************************************************************)
(* A model of datajoint's entity relationship diagram (datajoint/erd.py)   *)
(* and of the table tiers (datajoint/user_relations.py).                   *)
(*                                                                         *)
(* Python strings are sequences of one-character strings, so that          *)
(* splitting, stripping, slicing and regular-expression matching are       *)
(* computed on the characters.  Python objects that can be mutated in      *)
(* place (the sets held in ERD.nodes_to_show) live in a heap of cells and  *)
(* are held by reference.                                                  *)
(***************************************************************************)
EXTENDS Integers, Sequences, FiniteSets, TLC

VARIABLES
    dependencies,   \* connection.dependencies: the graph of all loaded tables
    diagrams,       \* the ERD objects the caller holds, oldest first
    heap,           \* the set objects that the diagrams' nodes_to_show refer to
    capacity,       \* how many diagrams the caller holds at most
    last,           \* the last call: what was called, on what, and how it ended
    word,           \* a table-name segment being spelled out
    decl,           \* the class declared last: its tier and its table_name
    node_type       \* what _get_tier answered last

vars == <<dependencies, diagrams, heap, capacity, last, word, decl, node_type>>

-----------------------------------------------------------------------------
(* Bounds of the model *)

\* the caller of the binary operators holds at most this many diagrams at
\* a time: two operands and a result
MaxDiagrams == 3
\* the caller of the unary operators holds at most this many: an operand
\* and a result
MaxChain == 2
\* the integers given to erd + n and erd - n range over -1 .. MaxHops
MaxHops == 2
\* a spelled-out table-name segment has at most this many characters
MaxLen == 4

-----------------------------------------------------------------------------
(* Strings *)

\* an attribute the object does not have (getattr raises AttributeError)
Absent == <<>>

\* None, and a connection
NoneValue == <<"None">>
Conn == <<"connection">>

\* str.startswith
StartsWith(s, prefix) ==
    /\ Len(prefix) <= Len(s)
    /\ SubSeq(s, 1, Len(prefix)) = prefix

\* s[:n] of Python: the first n characters, or all of s when it is shorter
Slice(s, n) == SubSeq(s, 1, IF n < Len(s) THEN n ELSE Len(s))

\* str.split(sep) for a one-character separator: the pieces between the
\* occurrences of sep, empty pieces included
RECURSIVE Split(_, _)
Split(s, sep) ==
    IF \A i \in 1..Len(s) : s[i] # sep
    THEN <<s>>
    ELSE LET i == CHOOSE k \in 1..Len(s) :
                      s[k] = sep /\ \A j \in 1..(k-1) : s[j] # sep
         IN  <<SubSeq(s, 1, i-1)>> \o Split(SubSeq(s, i+1, Len(s)), sep)

\* str.strip(ch): ch removed from both ends
RECURSIVE Strip(_, _)
Strip(s, ch) ==
    IF s = <<>> THEN s
    ELSE IF s[1] = ch THEN Strip(Tail(s), ch)
    ELSE IF s[Len(s)] = ch THEN Strip(SubSeq(s, 1, Len(s)-1), ch)
    ELSE s

-----------------------------------------------------------------------------
(* Regular expressions: re.fullmatch on the pattern's syntax tree *)

Lit(s)      == <<"lit", s>>         \* the characters of s, literally
Cls(chars)  == <<"cls", chars>>     \* [...]: one character of the class
Cat(r1, r2) == <<"cat", r1, r2>>    \* r1 r2
Alt(rs)     == <<"alt", rs>>        \* r1|r2|...  (rs a sequence)
Plus(r)     == <<"plus", r>>        \* r+
Star(r)     == <<"star", r>>        \* r*
Group(r)    == <<"grp", r>>         \* (r), (?P<name>r) and (r){1,1}

\* the positions in s where a match of r that starts after position i may
\* end
RECURSIVE Ends(_, _, _)
RECURSIVE Repeated(_, _, _)
Ends(r, s, i) ==
    CASE r[1] = "lit"  -> IF /\ i + Len(r[2]) <= Len(s)
                             /\ SubSeq(s, i + 1, i + Len(r[2])) = r[2]
                          THEN {i + Len(r[2])} ELSE {}
      [] r[1] = "cls"  -> IF i < Len(s) /\ s[i + 1] \in r[2]
                          THEN {i + 1} ELSE {}
      [] r[1] = "cat"  -> UNION {Ends(r[3], s, j) : j \in Ends(r[2], s, i)}
      [] r[1] = "alt"  -> UNION {Ends(r[2][k], s, i) : k \in 1..Len(r[2])}
      [] r[1] = "plus" -> Repeated(r[2], s, Ends(r[2], s, i))
      [] r[1] = "star" -> Repeated(r[2], s, {i})
      [] r[1] = "grp"  -> Ends(r[2], s, i)

\* the positions reached from those of `from` by matches of r, none or more
Repeated(r, s, from) ==
    LET more == from \cup UNION {Ends(r, s, j) : j \in from}
    IN  IF more = from THEN from ELSE Repeated(r, s, more)

\* re.fullmatch(r, s): some match of r starts at the start of s and ends at
\* its end
FullMatch(r, s) == Len(s) \in Ends(r, s, 0)

-----------------------------------------------------------------------------
(* The table tiers *)

\* the characters names are spelled with: [a-z] is Lower, [0-9] is Digit,
\* and one capital letter stands for the characters no pattern admits
Lower    == {"a"}
Digit    == {"1"}
Alphabet == Lower \cup Digit \cup {"_", "#", "A"}

\* a mutant of the naming pattern: underscores admitted anywhere after the
\* first letter
base_regexp_underscores ==
    Cat(Plus(Cls(Lower)), Star(Cls(Lower \cup Digit \cup {"_"})))

\* _base_regexp = r'[a-z]+[a-z0-9]*(_[a-z]+[a-z0-9]*)*'
base_regexp ==
    Cat(Cat(Plus(Cls(Lower)), Star(Cls(Lower \cup Digit))),
        Star(Group(Cat(Lit(<<"_">>),
                       Cat(Plus(Cls(Lower)), Star(Cls(Lower \cup Digit)))))))

TopTiers == {"Manual", "Lookup", "Imported", "Computed"}

\* _prefix of Manual, Lookup, Imported and Computed
prefix(tier) ==
    CASE tier = "Manual"   -> <<>>
      [] tier = "Lookup"   -> <<"#">>
      [] tier = "Imported" -> <<"_">>
      [] tier = "Computed" -> <<"_", "_">>

\* tier_regexp of Manual, Lookup, Imported and Computed: the prefix and the
\* naming pattern, in a named group.  Lookup's replace('TIER', 'lookup')
\* leaves the naming pattern as it is: it holds no 'TIER'.
top_tier_regexp(tier) == Group(Cat(Lit(prefix(tier)), base_regexp))

\* tier_regexp of Part: one of the four patterns above, '__', and the
\* naming pattern
part_tier_regexp ==
    Cat(Group(Alt(<<top_tier_regexp("Manual"), top_tier_regexp("Lookup"),
                    top_tier_regexp("Imported"), top_tier_regexp("Computed")>>)),
        Cat(Lit(<<"_", "_">>), Group(base_regexp)))

tier_regexp(tier) ==
    IF tier = "Part" THEN part_tier_regexp ELSE top_tier_regexp(tier)

\* user_relation_classes, in the order _get_tier tries them
user_relation_classes == <<"Manual", "Lookup", "Computed", "Imported", "Part">>

\* the grave accent that quotes a name in SQL (a TLA+ string cannot hold
\* that character: the apostrophe stands for it)
BQ == "'"

\* the format of UserRelation.full_table_name: database and table_name,
\* each in grave accents, joined by a dot
full_table_name(database, table_name) ==
    <<BQ>> \o database \o <<BQ, ".", BQ>> \o table_name \o <<BQ>>

\* the tiers whose pattern matches the table-name segment of the name, the
\* last but one of its pieces between the grave accents
matching_tiers(name) ==
    LET pieces  == Split(name, BQ)
        segment == pieces[Len(pieces) - 1]
    IN  {tier \in {"Manual", "Lookup", "Imported", "Computed", "Part"} :
            FullMatch(tier_regexp(tier), segment)}

\* next(tier for tier in order if tier matches), or None when the
\* generator is exhausted
first_tier(order, matching) ==
    LET hits == {k \in 1..Len(order) : order[k] \in matching}
    IN  IF hits = {} THEN "None"
        ELSE order[CHOOSE k \in hits : \A j \in hits : k <= j]

\* _get_tier
get_tier(name) == first_tier(user_relation_classes, matching_tiers(name))

\* a mutant of table_name: the prefix left out
table_name_no_prefix(tier, snake) == snake

\* UserRelation.table_name of a class whose name from_camel_case turns
\* into snake
table_name(tier, snake) == prefix(tier) \o snake

\* Part.table_name: the master's table_name, '__', and the part's own name
part_table_name(master_table_name, snake) ==
    master_table_name \o <<"_", "_">> \o snake

-----------------------------------------------------------------------------
(* Graphs: networkx.DiGraph, as its nodes and its directed edges *)

Graph(nodes, edges) == [nodes |-> nodes, edges |-> edges]

\* G[n] of a DiGraph: the successors of n
Successors(g, n) == {e[2] : e \in {d \in g.edges : d[1] = n}}
Predecessors(g, n) == {e[1] : e \in {d \in g.edges : d[2] = n}}

\* a mutant of Reverse: the graph as it is
ReverseForgotten(g) == g

\* DiGraph.reverse(): every edge turned round
Reverse(g) == Graph(g.nodes, {<<e[2], e[1]>> : e \in g.edges})

\* networkx 1.x node_boundary(G, nbunch1): the successors of the nodes of
\* nbunch1 that are in G, without those nodes themselves
node_boundary(g, nbunch1) ==
    LET nset1 == {n \in nbunch1 : n \in g.nodes}
        bdy   == UNION {Successors(g, n1) : n1 \in nset1}
    IN  bdy \ nset1

\* a mutant of expand: range(arg + 1), one boundary step too many
RECURSIVE expand_once_more(_, _, _)
expand_once_more(g, shown, arg) ==
    IF arg < 0 THEN shown
    ELSE LET new == node_boundary(g, shown)
         IN  IF new = {} THEN shown
             ELSE expand_once_more(g, shown \cup new, arg - 1)

\* for i in range(arg): new = node_boundary(g, shown); if not new: break;
\* shown.update(new)
RECURSIVE expand(_, _, _)
expand(g, shown, arg) ==
    IF arg <= 0 THEN shown
    ELSE LET new == node_boundary(g, shown)
         IN  IF new = {} THEN shown
             ELSE expand(g, shown \cup new, arg - 1)

-----------------------------------------------------------------------------
(* What each operator does to the copy's nodes_to_show *)

\* erd + erd: nodes_to_show.update(arg.nodes_to_show)
add_erd(shown, arg_shown) == shown \cup arg_shown

\* erd + table: nodes_to_show.add(arg.full_table_name)
add_table(shown, name) == shown \cup {name}

\* erd + n: arg boundary steps in the graph
add_int(g, shown, arg) == expand(g, shown, arg)

\* erd - erd: nodes_to_show.difference_update(arg.nodes_to_show)
sub_erd(shown, arg_shown) == shown \ arg_shown

\* erd - n: arg boundary steps in the reversed graph
sub_int(g, shown, arg) == expand(Reverse(g), shown, arg)

\* a mutant of mul_erd: the union
mul_erd_union(shown, arg_shown) == shown \cup arg_shown

\* erd * erd: nodes_to_show.intersection_update(arg.nodes_to_show)
mul_erd(shown, arg_shown) == shown \cap arg_shown

-----------------------------------------------------------------------------
(* add_parts *)

\* the pieces of a full table name between the dots, their grave accents
\* stripped
Segments(name) ==
    [k \in 1..Len(Split(name, ".")) |-> Strip(Split(name, ".")[k], BQ)]

\* a mutant of is_part: the databases are not compared
is_part_any_database(part, master) ==
    Segments(master)[2] \o <<"_", "_">>
        = Slice(Segments(part)[2], Len(Segments(master)[2]) + 2)

\* is_part(part, master): the same database, and the part's table name
\* starts with the master's and '__'
is_part(part, master) ==
    /\ Segments(master)[1] = Segments(part)[1]
    /\ Segments(master)[2] \o <<"_", "_">>
           = Slice(Segments(part)[2], Len(Segments(master)[2]) + 2)

\* nodes_to_show.update(n for n in self.nodes() if any(is_part(n, m) for m
\* in self.nodes_to_show)): the nodes are tried in the order the graph
\* yields them, each against the set as the nodes before it left it
RECURSIVE add_parts(_, _)
add_parts(order, shown) ==
    IF order = <<>> THEN shown
    ELSE add_parts(Tail(order),
                   IF \E m \in shown : is_part(Head(order), m)
                   THEN shown \cup {Head(order)}
                   ELSE shown)

\* the orders in which a graph may yield its nodes
Orders(nodes) ==
    {order \in [1..Cardinality(nodes) -> nodes] :
        \A n \in nodes : \E k \in DOMAIN order : order[k] = n}

-----------------------------------------------------------------------------
(* _make_graph *)

\* lookup_class_name(node, context): the name of the class of the table in
\* the context, or None
lookup_class_name(node, context) == context[node]

\* the labels: {node: (lookup_class_name(node, context) or node) for node
\* in graph.nodes()}, over the nodes of the graph that are shown
labels(g, shown, context) ==
    [node \in g.nodes \cap shown |->
        IF lookup_class_name(node, context) # NoneValue
        THEN lookup_class_name(node, context)
        ELSE node]

\* new_names = [mapping.values()]: a list of one element, the view of the
\* values
new_names(mapping) == <<mapping>>

\* len(new_names) > len(set(new_names))
identical_names(mapping) ==
    Len(new_names(mapping))
        > Cardinality({new_names(mapping)[k] : k \in 1..Len(new_names(mapping))})

-----------------------------------------------------------------------------
(* The tables and the sources of the diagram algebra *)

DbD == <<"d">>
DbE == <<"e">>
TableA == full_table_name(DbD, <<"a">>)
TableB == full_table_name(DbD, <<"b">>)
TableC == full_table_name(DbE, <<"c">>)
Tables == {TableA, TableB, TableC}

\* the foreign keys a schema over these tables may declare
Edges == {<<TableA, TableB>>, <<TableB, TableC>>, <<TableC, TableB>>,
          <<TableA, TableC>>}
Graphs == {Graph(Tables, edges) : edges \in SUBSET Edges}
\* the chain A -> B -> C
Chain == Graph(Tables, {<<TableA, TableB>>, <<TableB, TableC>>})
\* B refers to A and to C
TwoParents == Graph(Tables, {<<TableA, TableB>>, <<TableC, TableB>>})

\* a source as the attributes ERD.__init__ asks it for: connection, schema
\* (with its connection and database), full_table_name, database, and
\* what source[0] does
Source(connection, has_schema, schema_connection, schema_database, name, database, getitem) ==
    [full_table_name |-> name, database |-> database,
     connection |-> connection, has_schema |-> has_schema,
     schema_connection |-> schema_connection,
     schema_database |-> schema_database, getitem |-> getitem]

\* the database segment of a full table name
DatabaseOf(name) == Split(name, BQ)[2]

\* a declared table class or object
TableSource(t) ==
    Source(Conn, FALSE, Absent, Absent, t, DatabaseOf(t), "TypeError")

\* the sources a diagram is made of
Plottable ==
    {TableSource(t) : t \in Tables}
    \* a schema
    \cup {Source(Conn, FALSE, Absent, Absent, Absent, db, "TypeError") :
        db \in {DbD, DbE}}
    \* a module that holds a schema
    \cup {Source(Absent, TRUE, Conn, db, Absent, Absent, "TypeError") :
        db \in {DbD, DbE}}

Sources ==
    Plottable
    \* a module whose schema names no database
    \cup {Source(Absent, TRUE, Conn, Absent, Absent, Absent, "TypeError")}
    \* a class the schema decorator was not applied to: _connection = None
    \cup {Source(NoneValue, FALSE, Absent, Absent, Absent, Absent, "TypeError")}
    \* objects with none of the attributes: any object, a list of tables,
    \* an empty list
    \cup {Source(Absent, FALSE, Absent, Absent, Absent, Absent, g) :
        g \in {"TypeError", "item", "IndexError"}}

-----------------------------------------------------------------------------
(* The diagrams *)

\* the set a diagram shows
Shown(ds, h, i) == h[ds[i].nodes_to_show]

NoExpr == [table |-> Absent, steps |-> 0]

Call(op, self, other, n, table, source, err, expr) ==
    [n |-> n, table |-> table, op |-> op, self |-> self, other |-> other,
     source |-> source, err |-> err, expr |-> expr, names |-> <<>>]

NoSource == Source(Absent, FALSE, Absent, Absent, Absent, Absent, "TypeError")

\* a mutant of ERD_copy: nodes_to_show = source.nodes_to_show, the same set
\* object
ERD_copy_shared(ds, h, i) ==
    [diagrams |-> Append(ds, [graph |-> ds[i].graph,
                              nodes_to_show |-> ds[i].nodes_to_show]),
     heap |-> h]

\* ERD(source) for a diagram: a new diagram with a copy of the graph and a
\* new set holding the shown nodes
ERD_copy(ds, h, i) ==
    [diagrams |-> Append(ds, [graph |-> ds[i].graph,
                              nodes_to_show |-> Len(h) + 1]),
     heap |-> Append(h, h[ds[i].nodes_to_show])]

\* the outcome of ERD(source) for any other source: the error raised, or
\* the nodes to show
ERD_init(g, source) ==
    LET connection ==
            IF source.connection # Absent THEN source.connection
            ELSE IF source.has_schema /\ source.schema_connection # Absent
                 THEN source.schema_connection
                 ELSE Absent
        database ==
            IF source.database # Absent THEN source.database
            ELSE IF source.has_schema /\ source.schema_database # Absent
                 THEN source.schema_database
                 ELSE Absent
    IN  IF connection = Absent
        THEN \* raise DataJointError(... % repr(source[0])): source[0] first
             [err |-> IF source.getitem = "item" THEN "DataJointError"
                      ELSE source.getitem,
              shown |-> {}]
        ELSE IF connection = NoneValue
        THEN \* None.dependencies
             [err |-> "AttributeError", shown |-> {}]
        ELSE IF source.full_table_name # Absent
        THEN [err |-> "none", shown |-> {source.full_table_name}]
        ELSE IF database = Absent
        THEN [err |-> "DataJointError", shown |-> {}]
        ELSE [err |-> "none",
              shown |-> {node \in g.nodes :
                  StartsWith(node, <<BQ>> \o database \o <<BQ>>)}]

-----------------------------------------------------------------------------
(* The operations *)

Room == Len(diagrams) < capacity
Held == 1..Len(diagrams)
TierIdle == UNCHANGED <<word, decl, node_type>>

\* the copy every operator starts with, and the cell of its nodes_to_show
Copy(i) == ERD_copy(diagrams, heap, i)
CopyCell(i) == Copy(i).diagrams[Len(Copy(i).diagrams)].nodes_to_show

\* the operator returns the copy, its set replaced by `shown`
Return(i, shown) ==
    /\ diagrams' = Copy(i).diagrams
    /\ heap' = [Copy(i).heap EXCEPT ![CopyCell(i)] = shown]

\* ERD(source), source not a diagram
Construct(source) ==
    LET out == ERD_init(dependencies, source)
    IN  /\ Room
        /\ IF out.err = "none"
           THEN /\ diagrams' = Append(diagrams,
                        [graph |-> dependencies,
                         nodes_to_show |-> Len(heap) + 1])
                /\ heap' = Append(heap, out.shown)
           ELSE UNCHANGED <<diagrams, heap>>
        /\ last' = Call("construct", 0, 0, 0, Absent, source, out.err,
                        IF out.err = "none" /\ source.full_table_name # Absent
                        THEN [table |-> source.full_table_name, steps |-> 0]
                        ELSE NoExpr)
        /\ UNCHANGED <<dependencies, capacity>>
        /\ TierIdle

\* ERD(source), source a diagram
CopyConstruct(i) ==
    /\ Room
    /\ Return(i, Copy(i).heap[CopyCell(i)])
    /\ last' = Call("copy", i, 0, 0, Absent, NoSource, "none", NoExpr)
    /\ UNCHANGED <<dependencies, capacity>>
    /\ TierIdle

\* self + arg, arg a diagram
AddERD(i, j) ==
    /\ Room
    /\ Return(i, add_erd(Copy(i).heap[CopyCell(i)], Shown(diagrams, heap, j)))
    /\ last' = Call("add_erd", i, j, 0, Absent, NoSource, "none", NoExpr)
    /\ UNCHANGED <<dependencies, capacity>>
    /\ TierIdle

\* self + arg, arg a table
AddTable(i, t) ==
    /\ Room
    /\ Return(i, add_table(Copy(i).heap[CopyCell(i)], t))
    /\ last' = Call("add_table", i, 0, 0, t, NoSource, "none", NoExpr)
    /\ UNCHANGED <<dependencies, capacity>>
    /\ TierIdle

\* the expression the result of self +/- 1 is, when self is the result of
\* the call before and that was ERD(T), or ERD(T) + 1
Step(i, n, steps) ==
    IF /\ n = 1 /\ i = Len(diagrams) /\ last.err = "none"
       /\ last.expr.table # Absent /\ last.expr.steps = steps
    THEN [table |-> last.expr.table, steps |-> steps + 1]
    ELSE NoExpr

\* self + arg, arg an integer
AddInt(i, n) ==
    /\ Room
    /\ Return(i, add_int(Copy(i).diagrams[Len(Copy(i).diagrams)].graph,
                         Copy(i).heap[CopyCell(i)], n))
    /\ last' = Call("add_int", i, 0, n, Absent, NoSource, "none", Step(i, n, 0))
    /\ UNCHANGED <<dependencies, capacity>>
    /\ TierIdle

\* self - arg, arg a diagram
SubERD(i, j) ==
    /\ Room
    /\ Return(i, sub_erd(Copy(i).heap[CopyCell(i)], Shown(diagrams, heap, j)))
    /\ last' = Call("sub_erd", i, j, 0, Absent, NoSource, "none", NoExpr)
    /\ UNCHANGED <<dependencies, capacity>>
    /\ TierIdle

\* self - arg, arg a table: set.remove raises KeyError for a missing element
SubTable(i, t) ==
    /\ Room
    /\ IF t \in Copy(i).heap[CopyCell(i)]
       THEN /\ Return(i, Copy(i).heap[CopyCell(i)] \ {t})
            /\ last' = Call("sub_table", i, 0, 0, t, NoSource, "none", NoExpr)
       ELSE /\ UNCHANGED <<diagrams, heap>>
            /\ last' = Call("sub_table", i, 0, 0, t, NoSource, "KeyError", NoExpr)
    /\ UNCHANGED <<dependencies, capacity>>
    /\ TierIdle

\* self - arg, arg an integer
SubInt(i, n) ==
    /\ Room
    /\ Return(i, sub_int(Copy(i).diagrams[Len(Copy(i).diagrams)].graph,
                         Copy(i).heap[CopyCell(i)], n))
    /\ last' = Call("sub_int", i, 0, n, Absent, NoSource, "none", Step(i, n, 1))
    /\ UNCHANGED <<dependencies, capacity>>
    /\ TierIdle

\* self * arg, arg a diagram
Mul(i, j) ==
    /\ Room
    /\ Return(i, mul_erd(Copy(i).heap[CopyCell(i)], Shown(diagrams, heap, j)))
    /\ last' = Call("mul_erd", i, j, 0, Absent, NoSource, "none", NoExpr)
    /\ UNCHANGED <<dependencies, capacity>>
    /\ TierIdle

\* self * arg, arg a table: a table has no nodes_to_show
MulTable(i, t) ==
    /\ Room
    /\ UNCHANGED <<diagrams, heap>>
    /\ last' = Call("mul_table", i, 0, 0, t, NoSource, "AttributeError", NoExpr)
    /\ UNCHANGED <<dependencies, capacity>>
    /\ TierIdle

\* self.add_parts()
AddParts(i, order) ==
    /\ Room
    /\ Return(i, add_parts(order, Copy(i).heap[CopyCell(i)]))
    /\ last' = Call("add_parts", i, 0, 0, Absent, NoSource, "none", NoExpr)
    /\ UNCHANGED <<dependencies, capacity>>
    /\ TierIdle

\* self._make_graph(context)
MakeGraph(i, context) ==
    LET mapping == labels(diagrams[i].graph, Shown(diagrams, heap, i), context)
    IN  /\ last' = [Call("make_graph", i, 0, 0, Absent, NoSource,
                         IF identical_names(mapping)
                         THEN "DataJointError" ELSE "none",
                         NoExpr)
                    EXCEPT !.names = mapping]
        /\ UNCHANGED <<dependencies, diagrams, heap, capacity>>
        /\ TierIdle

\* x without its k-th element
Without(x, k) == SubSeq(x, 1, k - 1) \o SubSeq(x, k + 1, Len(x))

\* the caller drops its reference to a diagram; the set goes with the last
\* diagram that refers to it
Discard(i) ==
    LET cell  == diagrams[i].nodes_to_show
        kept  == Without(diagrams, i)
        freed == \A k \in 1..Len(kept) : kept[k].nodes_to_show # cell
    IN  /\ diagrams' =
               [k \in 1..Len(kept) |->
                   [kept[k] EXCEPT !.nodes_to_show =
                       IF freed /\ @ > cell THEN @ - 1 ELSE @]]
        /\ heap' = IF freed THEN Without(heap, cell) ELSE heap
        /\ last' = Call("discard", 0, 0, 0, Absent, NoSource, "none", NoExpr)
        /\ UNCHANGED <<dependencies, capacity>>
        /\ TierIdle

-----------------------------------------------------------------------------
(* The diagram algebra *)

NoCall == Call("none", 0, 0, 0, Absent, NoSource, "none", NoExpr)
NoDecl == [tier |-> "None", table_name |-> <<>>, master |-> "None"]

NoDiagrams ==
    /\ diagrams = <<>>
    /\ heap = <<>>
    /\ last = NoCall

NoTiers ==
    /\ word = <<>>
    /\ decl = NoDecl
    /\ node_type = "None"

\* two diagrams and the result of a binary operator, in three graphs
Init ==
    /\ dependencies \in {Chain, TwoParents, Graph(Tables, Edges)}
    /\ capacity = MaxDiagrams
    /\ NoDiagrams
    /\ NoTiers

Next ==
    \/ \E source \in Plottable : Construct(source)
    \/ \E i \in Held : CopyConstruct(i)
    \/ \E i \in Held, j \in Held : AddERD(i, j)
    \/ \E i \in Held, t \in Tables : AddTable(i, t)
    \/ \E i \in Held, n \in -1..MaxHops : AddInt(i, n)
    \/ \E i \in Held, j \in Held : SubERD(i, j)
    \/ \E i \in Held, t \in Tables : SubTable(i, t)
    \/ \E i \in Held, n \in -1..MaxHops : SubInt(i, n)
    \/ \E i \in Held, j \in Held : Mul(i, j)
    \/ \E i \in Held : Discard(i)

Spec == Init /\ [][Next]_vars

-----------------------------------------------------------------------------
(* Expansion downstream and upstream, in every graph *)

InitExpand ==
    /\ dependencies \in Graphs
    /\ capacity = MaxChain
    /\ NoDiagrams
    /\ NoTiers

NextExpand ==
    \/ \E source \in Plottable : Construct(source)
    \/ \E i \in Held, t \in Tables : AddTable(i, t)
    \/ \E i \in Held, n \in -1..MaxHops : AddInt(i, n)
    \/ \E i \in Held, n \in -1..MaxHops : SubInt(i, n)
    \/ \E i \in Held : Discard(i)

SpecExpand == InitExpand /\ [][NextExpand]_vars

-----------------------------------------------------------------------------
(* The failures *)

InitErrors ==
    /\ dependencies \in Graphs
    /\ capacity = MaxChain
    /\ NoDiagrams
    /\ NoTiers

NextErrors ==
    \/ \E source \in Sources : Construct(source)
    \/ \E i \in Held, t \in Tables : SubTable(i, t)
    \/ \E i \in Held, t \in Tables : MulTable(i, t)
    \/ \E i \in Held : Discard(i)

SpecErrors == InitErrors /\ [][NextErrors]_vars

-----------------------------------------------------------------------------
(* Masters and parts *)

\* a master, its part, the part of the part, and a table named like the
\* part in another database: each a database and a table name
NameA   == <<DbD, <<"a">>>>
NameAB  == <<DbD, <<"a", "_", "_", "b">>>>
NameABC == <<DbD, <<"a", "_", "_", "b", "_", "_", "c">>>>
NameEAB == <<DbE, <<"a", "_", "_", "b">>>>
PartNames == {NameA, NameAB, NameABC, NameEAB}

FullName(name) == full_table_name(name[1], name[2])
PartA   == FullName(NameA)
PartAB  == FullName(NameAB)
PartABC == FullName(NameABC)
OtherAB == FullName(NameEAB)
PartTables == {FullName(name) : name \in PartNames}

\* all the tables are loaded, or all but the part of the part
InitParts ==
    /\ dependencies \in {Graph(PartTables, {<<PartA, PartAB>>}),
                         Graph(PartTables \ {PartABC}, {})}
    /\ capacity = MaxChain
    /\ NoDiagrams
    /\ NoTiers

NextParts ==
    \/ \E t \in PartTables : Construct(TableSource(t))
    \/ \E i \in Held, t \in PartTables : AddTable(i, t)
    \/ \E i \in Held : \E order \in Orders(diagrams[i].graph.nodes) :
            AddParts(i, order)
    \/ \E i \in Held : Discard(i)

SpecParts == InitParts /\ [][NextParts]_vars

-----------------------------------------------------------------------------
(* Rendering *)

ClassNames == {<<"X">>, <<"Y">>}
Contexts == [Tables -> ClassNames \cup {NoneValue}]

InitRender ==
    /\ dependencies \in {Chain, TwoParents}
    /\ capacity = MaxChain
    /\ NoDiagrams
    /\ NoTiers

NextRender ==
    \/ \E source \in Plottable : Construct(source)
    \/ \E i \in Held, t \in Tables : AddTable(i, t)
    \/ \E i \in Held, context \in Contexts : MakeGraph(i, context)
    \/ \E i \in Held : Discard(i)

SpecRender == InitRender /\ [][NextRender]_vars

-----------------------------------------------------------------------------
(* Declaring and classifying tables *)

DiagramsIdle == UNCHANGED <<dependencies, diagrams, heap, capacity, last>>

\* the names of the masters, as from_camel_case yields them
MasterNames == {<<"a">>, <<"a", "1", "_", "a">>}

\* one more character of the name
Spell(c) ==
    /\ Len(word) < MaxLen
    /\ word' = Append(word, c)
    /\ decl' = NoDecl
    /\ node_type' = "unclassified"
    /\ DiagramsIdle

\* a class of a top tier whose name from_camel_case turns into the word
Declare(tier) ==
    /\ decl' = [tier |-> tier, master |-> "None",
                table_name |-> table_name(tier, word)]
    /\ node_type' = "unclassified"
    /\ UNCHANGED word
    /\ DiagramsIdle

\* a part class, whose name from_camel_case turns into the word, of a master
\* of a top tier
DeclarePart(master_tier, master_name) ==
    /\ decl' = [tier |-> "Part", master |-> master_tier,
                table_name |->
                    part_table_name(table_name(master_tier, master_name), word)]
    /\ node_type' = "unclassified"
    /\ UNCHANGED word
    /\ DiagramsIdle

\* the table-name segment of the node: the declared class's table name, or
\* the word as it is for a table no class was declared for
Segment == IF decl = NoDecl THEN word ELSE decl.table_name

\* _get_tier of the node
Classify ==
    /\ node_type = "unclassified"
    /\ node_type' = get_tier(full_table_name(DbD, Segment))
    /\ UNCHANGED <<word, decl>>
    /\ DiagramsIdle

InitTier ==
    /\ dependencies = Graph({}, {})
    /\ capacity = 0
    /\ NoDiagrams
    /\ word = <<>>
    /\ decl = NoDecl
    /\ node_type = "unclassified"

NextTier ==
    \/ \E c \in Alphabet : Spell(c)
    \/ \E tier \in TopTiers : Declare(tier)
    \/ \E tier \in TopTiers, name \in MasterNames : DeclarePart(tier, name)
    \/ Classify

SpecTier == InitTier /\ [][NextTier]_vars

-----------------------------------------------------------------------------
(* Properties of the diagram algebra *)

\* the result of the last call, and its operands
Result == Shown(diagrams, heap, Len(diagrams))
Self   == Shown(diagrams, heap, last.self)
Other  == Shown(diagrams, heap, last.other)
Returned(op) == last.op = op /\ last.err = "none"

Walks(g, n) ==
    {p \in UNION {[1..k -> g.nodes] : k \in 1..(n + 1)} :
        \A k \in 1..(Len(p) - 1) : <<p[k], p[k + 1]>> \in g.edges}

\* the nodes a walk of at most n edges leads to from a node of `from`
Downstream(g, from, n) ==
    {p[Len(p)] : p \in {q \in Walks(g, n) : q[1] \in from}}

\* the nodes a walk of at most n edges leads from to a node of `to`
Upstream(g, to, n) ==
    {p[1] : p \in {q \in Walks(g, n) : q[Len(q)] \in to}}

\* C2: (e + n) shows what e shows and every node a directed path of at most
\* n edges leads to from a node e shows; for n <= 0 it shows what e shows.
\* In the chain A -> B -> C: ERD(A) shows A, ERD(A) + 1 shows A and B, one
\* more + 1 shows A, B and C, and one more changes nothing.
C2_AddInt ==
    /\ Returned("add_int") =>
          /\ Result = Self \cup Downstream(dependencies, Self, last.n)
          /\ last.n <= 0 => Result = Self
          /\ dependencies = Chain /\ last.n = 1 =>
                /\ Self = {TableA} => Result = {TableA, TableB}
                /\ Self = {TableA, TableB} => Result = Tables
                /\ Self = Tables => Result = Tables
    /\ Returned("construct") /\ last.source.full_table_name = TableA =>
          Result = {TableA}

\* in the chain, ERD(A) + 1 + 1 reaches C
C2_Witness ==
    /\ dependencies = Chain
    /\ Returned("add_int")
    /\ last.n = 1
    /\ Self = {TableA, TableB}
    /\ Result = Tables

\* C3: (e - n) shows what e shows and every node from which a directed path
\* of at most n edges leads to a node e shows, so it shows at least what e
\* shows; for n <= 0 it shows what e shows.
C3_SubInt ==
    Returned("sub_int") =>
        /\ Result = Self \cup Upstream(dependencies, Self, last.n)
        /\ Self \subseteq Result
        /\ last.n <= 0 => Result = Self

\* in the chain, ERD(C) - 2 reaches A
C3_Witness ==
    /\ dependencies = Chain
    /\ Returned("sub_int")
    /\ last.n = 2
    /\ Self = {TableC}
    /\ Result = Tables

\* C4: ERD(T) + 1 - 1 shows T, the successors of T and the predecessors of
\* T, and nothing else, in every graph.
C4_ImmediateNeighbours ==
    Returned("sub_int") /\ last.expr.steps = 2 =>
        Result = {last.expr.table}
                 \cup Successors(dependencies, last.expr.table)
                 \cup Predecessors(dependencies, last.expr.table)

\* C5: e1 + e2 shows the union, e1 - e2 the difference and e1 * e2 the
\* intersection of what e1 and e2 show.
C5_SetAlgebra ==
    /\ Returned("add_erd") => Result = Self \cup Other
    /\ Returned("sub_erd") => Result = Self \ Other
    /\ Returned("mul_erd") => Result = Self \cap Other

\* an intersection that is neither operand, nor empty
C5_Witness ==
    /\ Returned("mul_erd")
    /\ last.self # last.other
    /\ Result # Self
    /\ Result # Other
    /\ Result # {}

\* C8: every failure of the construction of a diagram or of an operator is
\* a DataJointError: no connection in the source, no table or database in
\* the source, and e - T for a table T that e does not show.
C8_SingleErrorKind ==
    last.op \in {"construct", "sub_table"} =>
        last.err \in {"none", "DataJointError"}

-----------------------------------------------------------------------------
(* Properties of add_parts and of rendering *)

\* part is the full name of a table in the database of the table whose full
\* name is master, and its table name starts with master's and '__'
Qualifies(part, master) ==
    \E p \in PartNames, m \in PartNames :
        /\ part = FullName(p)
        /\ master = FullName(m)
        /\ p[1] = m[1]
        /\ StartsWith(p[2], m[2] \o <<"_", "_">>)

\* C6: add_parts adds exactly the nodes of the graph that are in the database
\* of a shown node and whose table name starts with that node's and '__';
\* and it is idempotent: applied to its result, in any order of the nodes,
\* it adds nothing.
C6_AddParts ==
    Returned("add_parts") =>
        /\ Result = Self \cup {n \in dependencies.nodes :
                                  \E m \in Self : Qualifies(n, m)}
        /\ \A order \in Orders(dependencies.nodes) :
              add_parts(order, Result) = Result

\* the master alone gains its part and the part of its part, and not the
\* table of the other database
C6_Witness ==
    /\ Returned("add_parts")
    /\ Self = {PartA}
    /\ Result = {PartA, PartAB, PartABC}
    /\ OtherAB \in dependencies.nodes

\* C7: _make_graph fails with a DataJointError when two shown nodes get the
\* same display name, and only then.
C7_IdenticalNamesFail ==
    last.op = "make_graph" =>
        (last.err = "DataJointError"
            <=> \E n1 \in DOMAIN last.names, n2 \in DOMAIN last.names :
                    n1 # n2 /\ last.names[n1] = last.names[n2])

-----------------------------------------------------------------------------
(* Properties of the tiers *)

AllTiers == TopTiers \cup {"Part"}
Classified == node_type # "unclassified"
Upper == {"A"}
\* for each tier, the order that tries it first and then the others as
\* _get_tier does: when two tiers match, two of these orders answer
\* differently, and when at most one does, every order answers the same
TierOrders ==
    {<<first>> \o SelectSeq(user_relation_classes, LAMBDA t : t # first) :
        first \in AllTiers}

\* C9: at most one of the five tier patterns matches a table-name segment,
\* so _get_tier answers the same in whatever order the tiers are tried.
C9_OneTier ==
    Classified =>
        LET matching == matching_tiers(full_table_name(DbD, Segment))
        IN  /\ Cardinality(matching) <= 1
            /\ \A order \in TierOrders :
                  first_tier(order, matching) = node_type

\* a name no class was declared for is found to be a part's
C9_Witness ==
    /\ decl = NoDecl
    /\ node_type = "Part"

\* the table name of a class of a top tier is classified as that tier, and
\* the table name of a part of a master of a top tier as Part, when the name
\* from_camel_case yields matches the naming pattern
NamesAgree ==
    /\ decl.tier \in TopTiers /\ FullMatch(base_regexp, word) =>
          node_type = decl.tier
    /\ decl.tier = "Part" /\ FullMatch(base_regexp, word) =>
          node_type = "Part"

\* C10, as amended: storage naming and classification agree (NamesAgree),
\* and a segment that starts with a capital letter or a digit is untiered.
\* (A segment that only violates the naming pattern need not be: '#a', '_a',
\* '__a' and 'a__a' violate it and are Lookup, Imported, Computed and Part.)
C10_NamingAgrees ==
    Classified =>
        /\ NamesAgree
        /\ decl = NoDecl /\ word # <<>> /\ word[1] \in Upper \cup Digit =>
              node_type = "None"

\* a part of a computed master is found to be a part
C10_Witness ==
    /\ decl.tier = "Part"
    /\ decl.master = "Computed"
    /\ FullMatch(base_regexp, word)
    /\ node_type = "Part"

\* C10, as stated: storage naming and classification agree, and a segment
\* that violates the naming pattern is untiered.
C10_AsStated ==
    Classified =>
        /\ NamesAgree
        /\ decl = NoDecl /\ ~FullMatch(base_regexp, word) =>
              node_type = "None"

=============================================================================
